---------------------------- MODULE Spec2Model ----------------------------
(***************************************************************************)
(* The compliance ledger of data-act-sdk: the three in-memory stores       *)
(*   ConsentManager (ledger: ConsentRecord[]),                             *)
(*   AuditLedger    (events: AuditEvent[]),                                *)
(*   LockService    (lockedSubjects: Set<string>),                         *)
(* one action per state-changing method, the queries as operators.         *)
(*                                                                         *)
(* JavaScript values are modelled as follows.  A string is a TLA+ string;  *)
(* `undefined' (an omitted optional argument, an absent field, the result  *)
(* of latest() when nothing matches) is the reserved string Undefined,     *)
(* which is in none of the input alphabets.  A number is an integer.  An   *)
(* array is a sequence (index 1 is JavaScript index 0).                    *)
(*                                                                         *)
(* callLog is a history variable: the calls made so far, in order, each    *)
(* with its arguments and its outcome.  The program does not keep it; the  *)
(* properties that speak of "the calls made so far" are stated over it.    *)
(*                                                                         *)
(* pending is the calls that concurrent callers (asynchronous tasks) have  *)
(* issued and the event loop has not yet run.  Every method is synchronous *)
(* (no await), so a call, once it runs, runs to completion.                *)
(*                                                                         *)
(* ledger, events and lockedSubjects are the fields of one instance of     *)
(* each class; second is the fields of a second instance of each class.    *)
(* held is the array that the caller got from history(), list() or since() *)
(* and kept.                                                               *)
(*                                                                         *)
(* An array holds references to objects, and one object can be in several  *)
(* places: log() pushes the caller's object itself, and the queries return *)
(* arrays of the stored objects.  ledger, events, second and held.elems    *)
(* give the value of the object at each position; objectIds (and held.ids) *)
(* give its identity, position by position.  Two positions with the same   *)
(* identity are one object and have the same value; an assignment to a     *)
(* field of an object changes every position that holds it.                *)
(***************************************************************************)
EXTENDS Integers, Sequences, FiniteSets, TLC

VARIABLES ledger, events, lockedSubjects, callLog, pending, second, held,
          objectIds

vars == <<ledger, events, lockedSubjects, callLog, pending, second, held, objectIds>>

(***************************************************************************)
(* Bounds of the model: the number of calls in a run of each specification.*)
(***************************************************************************)
MaxConsentCalls == 3
MaxAuditCalls == 3
MaxLockCalls == 4
MaxCalls == 2
MaxAliasCalls == 3
MaxConcurrentCalls == 3
MaxClockCalls == 3
MaxQueryCalls == 3
MaxInstanceCalls == 3
MaxCopyCalls == 4

(***************************************************************************)
(* Input alphabets.                                                        *)
(***************************************************************************)
Undefined == "<undefined>"

Subjects == {"", "u1", "u2"}

Purposes == {"", "ads"}

\* A purpose argument of history(): a purpose, or omitted.
PurposeArgs == Purposes \cup {Undefined}

ConsentTimes == {1, 2}

AuditTimes == {-1, 0, 1}

Thresholds == {-1, 0, 1, 2}

CourtOrderArgs == {Undefined, "CO-1"}

\* JavaScript truthiness of a string-or-undefined value: `!x' is true for
\* undefined and for the empty string.
Truthy(x) == x # Undefined /\ x # ""

(***************************************************************************)
(* ConsentManager                                                          *)
(***************************************************************************)
ConsentRecord(subjectId, purpose, granted, time) ==
  [subjectId |-> subjectId, purpose |-> purpose, granted |-> granted, timestamp |-> time]

\* The value latest() returns when no record matches (JavaScript undefined).
NoRecord == [undefined |-> TRUE]

\* The loop of latest(): i runs from ledger.length - 1 down to 0 (here from
\* Len(ledger) down to 1) and the first match is returned.
RECURSIVE latestScan(_, _, _, _)
latestScan(log, i, subjectId, purpose) ==
  IF i < 1 THEN NoRecord
  ELSE IF log[i].subjectId = subjectId /\ log[i].purpose = purpose THEN log[i]
  ELSE latestScan(log, i - 1, subjectId, purpose)

\* A scan from the front of the ledger, which returns the oldest match.
RECURSIVE firstScan(_, _, _, _)
firstScan(log, i, subjectId, purpose) ==
  IF i > Len(log) THEN NoRecord
  ELSE IF log[i].subjectId = subjectId /\ log[i].purpose = purpose THEN log[i]
  ELSE firstScan(log, i + 1, subjectId, purpose)

latestOldestMatch(subjectId, purpose) == firstScan(ledger, 1, subjectId, purpose)

\* latest() over a given ledger.
latestIn(log, subjectId, purpose) == latestScan(log, Len(log), subjectId, purpose)

latest(subjectId, purpose) == latestIn(ledger, subjectId, purpose)

\* The predicate history() filters with:
\* r.subjectId === subjectId && (purpose ? r.purpose === purpose : true)
historyMatch(r, subjectId, purpose) ==
  r.subjectId = subjectId /\ (IF Truthy(purpose) THEN r.purpose = purpose ELSE TRUE)

\* A history() that hands its result back sorted by timestamp (stable).
InsertByTime(sorted, r) ==
  LET k == Cardinality({i \in 1..Len(sorted) : sorted[i].timestamp <= r.timestamp})
  IN SubSeq(sorted, 1, k) \o <<r>> \o SubSeq(sorted, k + 1, Len(sorted))

RECURSIVE SortByTime(_)
SortByTime(seq) ==
  IF seq = <<>> THEN <<>>
  ELSE InsertByTime(SortByTime(SubSeq(seq, 1, Len(seq) - 1)), seq[Len(seq)])

historyByTime(subjectId, purpose) ==
  SortByTime(SelectSeq(ledger, LAMBDA r : historyMatch(r, subjectId, purpose)))

\* history() over a given ledger: Array.filter keeps the order of the array.
historyIn(log, subjectId, purpose) ==
  SelectSeq(log, LAMBDA r : historyMatch(r, subjectId, purpose))

history(subjectId, purpose) == historyIn(ledger, subjectId, purpose)

\* A grant() that keeps one record per (subject, purpose): the new record
\* takes the place of the pair's earlier ones.
grantReplacesPair(log, rec) ==
  Append(SelectSeq(log, LAMBDA r :
                     ~(r.subjectId = rec.subjectId /\ r.purpose = rec.purpose)),
         rec)

\* A grant() that pushes the record before `granted' and `timestamp' are
\* filled in.
grantAppendUnfilled(log, rec) ==
  Append(log, [subjectId |-> rec.subjectId, purpose |-> rec.purpose])

\* A grant() that pushes its record twice.
grantAppendTwice(log, rec) == Append(Append(log, rec), rec)

grantAppend(log, rec) == Append(log, rec)

\* A revoke() that updates the pair's record in place when it is the newest.
revokeOverwrite(log, rec) ==
  IF /\ Len(log) > 0
     /\ log[Len(log)].subjectId = rec.subjectId
     /\ log[Len(log)].purpose = rec.purpose
  THEN [log EXCEPT ![Len(log)] = rec]
  ELSE Append(log, rec)

\* A revoke() that is dropped unless the pair's newest record is a grant.
revokeAppendIfGranted(log, rec) ==
  LET l == latestIn(log, rec.subjectId, rec.purpose)
  IN IF l # NoRecord /\ l.granted THEN Append(log, rec) ELSE log

revokeAppend(log, rec) == Append(log, rec)

(***************************************************************************)
(* AuditLedger                                                             *)
(***************************************************************************)
AuditEvent(subjectId, actor, action, resource, time, purpose) ==
  [subjectId |-> subjectId, actor |-> actor, action |-> action,
   resource |-> resource, timestamp |-> time, purpose |-> purpose]

\* The four values of the type of AuditEvent.action.
ActionKinds == {"READ", "WRITE", "DELETE", "PROCESS"}

\* The events log() is called with: every well-formed event of the alphabet,
\* the events with exactly one of the four required fields empty or absent,
\* the event of tests/audit.test.ts with three of them empty, an event of
\* another action kind, and an event whose action is a string outside the
\* type (an untyped caller: the tests pass `as any' values).
EventInputs ==
  {AuditEvent(s, "svc", "READ", "db", t, p) :
     s \in {"u1", "u2"}, t \in AuditTimes, p \in {Undefined, "ads"}}
  \cup {AuditEvent(x, "svc", "READ", "db", 0, Undefined) : x \in {"", Undefined}}
  \cup {AuditEvent("u1", x, "READ", "db", 0, Undefined) : x \in {"", Undefined}}
  \cup {AuditEvent("u1", "svc", x, "db", 0, Undefined) : x \in {"", Undefined}}
  \cup {AuditEvent("u1", "svc", "READ", x, 0, Undefined) : x \in {"", Undefined}}
  \cup {AuditEvent("", "", "READ", "", 0, Undefined)}
  \cup {AuditEvent("u1", "svc", a, "db", 0, Undefined) : a \in {"PROCESS", "EXPORT"}}

\* A validation that forgets the resource field.
logRejectsNoResource(e) ==
  ~Truthy(e.subjectId) \/ ~Truthy(e.actor) \/ ~Truthy(e.action)

\* if (!e.subjectId || !e.actor || !e.action || !e.resource) throw ...
logRejects(e) ==
  ~Truthy(e.subjectId) \/ ~Truthy(e.actor) \/ ~Truthy(e.action) \/ ~Truthy(e.resource)

\* A log() that takes a falsy timestamp for a missing one and stores a
\* clock reading instead (e.timestamp || Date.now()).
logAppendDefaultTime(log, e) ==
  Append(log, [e EXCEPT !.timestamp = IF @ = 0 THEN 1 ELSE @])

\* A log() that uses unshift instead of push.
logPrepend(log, e) == <<e>> \o log

logAppend(log, e) == Append(log, e)

\* A list() that returns the events of every subject.
listEverySubject(evs, subjectId) == evs

\* list() over a given event log.
listIn(evs, subjectId) == SelectSeq(evs, LAMBDA ev : ev.subjectId = subjectId)

list(subjectId) == listIn(events, subjectId)

\* An exclusive lower bound.
sinceMatchStrict(ev, sinceTs) == ev.timestamp > sinceTs

\* The predicate since() filters list(subjectId) with.
sinceMatch(ev, sinceTs) == ev.timestamp >= sinceTs

\* since() over a given event log: this.list(subjectId).filter(...)
sinceIn(evs, subjectId, sinceTs) ==
  SelectSeq(listIn(evs, subjectId), LAMBDA ev : sinceMatch(ev, sinceTs))

since(subjectId, sinceTs) == sinceIn(events, subjectId, sinceTs)

(***************************************************************************)
(* LockService                                                             *)
(***************************************************************************)
\* A lock() that toggles.
lockToggle(set, subjectId) ==
  IF subjectId \in set THEN set \ {subjectId} ELSE set \cup {subjectId}

\* A lock() that takes the empty subject id for no subject.
lockAddNonEmpty(set, subjectId) ==
  IF subjectId = "" THEN set ELSE set \cup {subjectId}

lockAdd(set, subjectId) == set \cup {subjectId}

\* An unlock() that lifts the lock only when a court order id is given.
unlockNeedsOrder(set, subjectId, courtOrderId) ==
  IF courtOrderId = Undefined THEN set ELSE set \ {subjectId}

\* courtOrderId is accepted and not read.
unlockDelete(set, subjectId, courtOrderId) == set \ {subjectId}

\* isLocked() over a given lock set.
isLockedIn(set, subjectId) == subjectId \in set

isLocked(subjectId) == isLockedIn(lockedSubjects, subjectId)

(***************************************************************************)
(* The calls.  Stores is the fields of the three objects as one value;     *)
(* each method is a function of it (a method of one class reads and writes *)
(* the field of its own object only), and each action is one whole call.   *)
(***************************************************************************)
Stores == [ledger |-> ledger, events |-> events, lockedSubjects |-> lockedSubjects]

\* The fields of a new instance of each class.
EmptyStores == [ledger |-> <<>>, events |-> <<>>, lockedSubjects |-> {}]

StoresBecome(st) ==
  /\ ledger' = st.ledger
  /\ events' = st.events
  /\ lockedSubjects' = st.lockedSubjects

\* A grant() that also writes an audit entry for the subject.
grantEffectWithAudit(st, subjectId, purpose, time) ==
  [st EXCEPT !.ledger = grantAppend(@, ConsentRecord(subjectId, purpose, TRUE, time)),
             !.events = Append(@, AuditEvent(subjectId, "sdk", "WRITE", "consent",
                                             time, purpose))]

grantEffect(st, subjectId, purpose, time) ==
  [st EXCEPT !.ledger = grantAppend(@, ConsentRecord(subjectId, purpose, TRUE, time))]

\* A revoke() that is refused while the subject is locked.
revokeEffectBlockedByLock(st, subjectId, purpose, time) ==
  IF subjectId \in st.lockedSubjects THEN st
  ELSE [st EXCEPT !.ledger = revokeAppend(@, ConsentRecord(subjectId, purpose, FALSE, time))]

revokeEffect(st, subjectId, purpose, time) ==
  [st EXCEPT !.ledger = revokeAppend(@, ConsentRecord(subjectId, purpose, FALSE, time))]

\* A log() that writes nothing for a subject that is locked.
logEffectBlockedByLock(st, e) ==
  IF logRejects(e) \/ e.subjectId \in st.lockedSubjects THEN st
  ELSE [st EXCEPT !.events = logAppend(@, e)]

logEffect(st, e) ==
  IF logRejects(e) THEN st ELSE [st EXCEPT !.events = logAppend(@, e)]

\* A lock() that also writes the transition to the audit events.
lockEffectLogsTransition(st, subjectId) ==
  [st EXCEPT !.lockedSubjects = lockAdd(@, subjectId),
             !.events = Append(@, AuditEvent(subjectId, "sdk", "WRITE", "lock",
                                             0, Undefined))]

lockEffect(st, subjectId) ==
  [st EXCEPT !.lockedSubjects = lockAdd(@, subjectId)]

unlockEffect(st, subjectId, courtOrderId) ==
  [st EXCEPT !.lockedSubjects = unlockDelete(@, subjectId, courtOrderId)]

\* The default parameter `time: number = Date.now()' of grant() and revoke().
\* A call made without the argument has no `time'; `now' is what Date.now()
\* returns when the call is made.  A treatment of the falsy 0 as omitted
\* (`time || Date.now()') comes first.
timeArgZeroIsOmitted(c) ==
  IF "time" \in DOMAIN c /\ c.time # 0 THEN c.time ELSE c.now

timeArg(c) == IF "time" \in DOMAIN c THEN c.time ELSE c.now

\* A latest() that scans by popping: it takes the newest record off the
\* ledger.
queryEffectLatestPops(st, c) ==
  IF c.op = "latest" /\ Len(st.ledger) > 0
  THEN [st EXCEPT !.ledger = SubSeq(@, 1, Len(@) - 1)]
  ELSE st

\* latest, history, list, since and isLocked assign to no field.
queryEffect(st, c) == st

\* A call is a record of the method's name and its arguments; ApplyCall is
\* what the call does to the stores.
ApplyCall(st, c) ==
  CASE c.op = "grant" -> grantEffect(st, c.subjectId, c.purpose, timeArg(c))
    [] c.op = "revoke" -> revokeEffect(st, c.subjectId, c.purpose, timeArg(c))
    [] c.op = "log" -> logEffect(st, c.event)
    [] c.op = "lock" -> lockEffect(st, c.subjectId)
    [] c.op = "unlock" -> unlockEffect(st, c.subjectId, c.courtOrderId)
    [] OTHER -> queryEffect(st, c)

\* Another wording of the message.
logErrorReworded == "Invalid event"

\* The message of the Error log() throws.
logError == "Invalid audit event"

\* How the call ends when it runs over the stores st: the value it returns,
\* or the error it throws.
CallResult(st, c) ==
  CASE c.op = "grant" ->
         [threw |-> FALSE, ret |-> ConsentRecord(c.subjectId, c.purpose, TRUE, timeArg(c))]
    [] c.op = "revoke" ->
         [threw |-> FALSE, ret |-> ConsentRecord(c.subjectId, c.purpose, FALSE, timeArg(c))]
    [] c.op = "log" ->
         IF logRejects(c.event) THEN [threw |-> TRUE, error |-> logError]
         ELSE [threw |-> FALSE, ret |-> c.event]
    [] c.op = "lock" -> [threw |-> FALSE, ret |-> TRUE]
    [] c.op = "unlock" -> [threw |-> FALSE, ret |-> TRUE]
    [] c.op = "latest" ->
         [threw |-> FALSE, ret |-> latestIn(st.ledger, c.subjectId, c.purpose)]
    [] c.op = "history" ->
         [threw |-> FALSE, ret |-> historyIn(st.ledger, c.subjectId, c.purpose)]
    [] c.op = "list" -> [threw |-> FALSE, ret |-> listIn(st.events, c.subjectId)]
    [] c.op = "since" ->
         [threw |-> FALSE, ret |-> sinceIn(st.events, c.subjectId, c.threshold)]
    [] c.op = "isLocked" ->
         [threw |-> FALSE, ret |-> isLockedIn(st.lockedSubjects, c.subjectId)]

\* The identities of the stored objects after the call c on instance inst.
\* grant() and revoke() make a new object (`const rec = {...}') and push it;
\* log() pushes the caller's object e: a new object, or, when the call has
\* an `alias', the object that is at events[alias] already.
NoObjects ==
  [next |-> 1, ledger |-> <<>>, events |-> <<>>, ledger2 |-> <<>>, events2 |-> <<>>]

idsAfterCall(ids, inst, c) ==
  LET ledgerOf == IF inst = 1 THEN "ledger" ELSE "ledger2"
      eventsOf == IF inst = 1 THEN "events" ELSE "events2"
  IN CASE c.op \in {"grant", "revoke"} ->
            [ids EXCEPT ![ledgerOf] = Append(@, ids.next), !.next = @ + 1]
       [] c.op = "log" /\ ~logRejects(c.event) ->
            IF "alias" \in DOMAIN c
            THEN [ids EXCEPT ![eventsOf] = Append(@, ids.events[c.alias])]
            ELSE [ids EXCEPT ![eventsOf] = Append(@, ids.next), !.next = @ + 1]
       [] OTHER -> ids

\* The call runs to completion: the stores change and the call, with how it
\* ended, joins callLog.
RunCall(c, notes) ==
  /\ StoresBecome(ApplyCall(Stores, c))
  /\ callLog' = Append(callLog, c @@ CallResult(Stores, c) @@ notes)
  /\ objectIds' = idsAfterCall(objectIds, 1, c)

NoNotes == [x \in {} |-> TRUE]

Grant(subjectId, purpose, time) ==
  /\ RunCall([op |-> "grant", subjectId |-> subjectId, purpose |-> purpose,
              time |-> time], NoNotes)
  /\ UNCHANGED <<pending, second, held>>

Revoke(subjectId, purpose, time) ==
  /\ RunCall([op |-> "revoke", subjectId |-> subjectId, purpose |-> purpose,
              time |-> time], NoNotes)
  /\ UNCHANGED <<pending, second, held>>

Log(e) ==
  /\ RunCall([op |-> "log", event |-> e], NoNotes)
  /\ UNCHANGED <<pending, second, held>>

Lock(subjectId) ==
  /\ RunCall([op |-> "lock", subjectId |-> subjectId], NoNotes)
  /\ UNCHANGED <<pending, second, held>>

Unlock(subjectId, courtOrderId) ==
  /\ RunCall([op |-> "unlock", subjectId |-> subjectId,
              courtOrderId |-> courtOrderId], NoNotes)
  /\ UNCHANGED <<pending, second, held>>

\* grant() and revoke() called without the time argument, when the clock
\* reads `now'.
GrantNow(subjectId, purpose, now) ==
  /\ RunCall([op |-> "grant", subjectId |-> subjectId, purpose |-> purpose,
              now |-> now], NoNotes)
  /\ UNCHANGED <<pending, second, held>>

RevokeNow(subjectId, purpose, now) ==
  /\ RunCall([op |-> "revoke", subjectId |-> subjectId, purpose |-> purpose,
              now |-> now], NoNotes)
  /\ UNCHANGED <<pending, second, held>>

\* grant() and revoke() called with the time argument, when the clock reads
\* `now': the default is not evaluated.
GrantAt(subjectId, purpose, time, now) ==
  /\ RunCall([op |-> "grant", subjectId |-> subjectId, purpose |-> purpose,
              time |-> time, now |-> now], NoNotes)
  /\ UNCHANGED <<pending, second, held>>

RevokeAt(subjectId, purpose, time, now) ==
  /\ RunCall([op |-> "revoke", subjectId |-> subjectId, purpose |-> purpose,
              time |-> time, now |-> now], NoNotes)
  /\ UNCHANGED <<pending, second, held>>

\* The queries, as calls.
Latest(subjectId, purpose) ==
  /\ RunCall([op |-> "latest", subjectId |-> subjectId, purpose |-> purpose], NoNotes)
  /\ UNCHANGED <<pending, second, held>>

History(subjectId, purpose) ==
  /\ RunCall([op |-> "history", subjectId |-> subjectId, purpose |-> purpose], NoNotes)
  /\ UNCHANGED <<pending, second, held>>

List(subjectId) ==
  /\ RunCall([op |-> "list", subjectId |-> subjectId], NoNotes)
  /\ UNCHANGED <<pending, second, held>>

Since(subjectId, threshold) ==
  /\ RunCall([op |-> "since", subjectId |-> subjectId, threshold |-> threshold], NoNotes)
  /\ UNCHANGED <<pending, second, held>>

IsLocked(subjectId) ==
  /\ RunCall([op |-> "isLocked", subjectId |-> subjectId], NoNotes)
  /\ UNCHANGED <<pending, second, held>>

(***************************************************************************)
(* Concurrent callers.  A caller issues a call; the event loop runs the    *)
(* pending calls one at a time, in any order.                              *)
(***************************************************************************)
Callers == {"c1", "c2"}

Idle == [op |-> "idle"]

OtherCaller(c) == CHOOSE d \in Callers : d # c

ConcurrentCalls ==
  {[op |-> "grant", subjectId |-> "u1", purpose |-> "ads", time |-> 2]}
  \cup {[op |-> "revoke", subjectId |-> "u1", purpose |-> "ads", time |-> 1]}
  \cup {[op |-> "log", event |-> AuditEvent("u1", "svc", "READ", x, 0, Undefined)] :
          x \in {"db", ""}}
  \cup {[op |-> "lock", subjectId |-> "u1"]}
  \cup {[op |-> "unlock", subjectId |-> "u1", courtOrderId |-> Undefined]}
  \cup {[op |-> "history", subjectId |-> "u1", purpose |-> "ads"]}
  \cup {[op |-> "latest", subjectId |-> "u1", purpose |-> "ads"]}
  \cup {[op |-> "list", subjectId |-> "u1"]}
  \cup {[op |-> "isLocked", subjectId |-> "u1"]}

\* The calls begun so far: those that have run and those still pending.
CallsBegun == Len(callLog) + Cardinality({c \in Callers : pending[c] # Idle})

Issue(c, call) ==
  /\ pending[c] = Idle
  /\ pending' = [pending EXCEPT ![c] = call]
  /\ UNCHANGED <<ledger, events, lockedSubjects, callLog, second, held, objectIds>>

\* The pending call of caller c runs; `meanwhile' notes the call of the
\* other caller that was pending at that moment.
Run(c) ==
  /\ pending[c] # Idle
  /\ RunCall(pending[c], [caller |-> c, meanwhile |-> pending[OtherCaller(c)]])
  /\ pending' = [pending EXCEPT ![c] = Idle]
  /\ UNCHANGED <<second, held>>

(***************************************************************************)
(* The caller's own assignments.  grant() and revoke() push rec and return *)
(* the same object, latest() and history() hand back the stored objects,   *)
(* and log() pushes the caller's object e and returns it: the caller holds *)
(* a reference to every stored record, and no field is readonly.  An       *)
(* assignment to a field of such an object is an assignment to the stored  *)
(* record.                                                                 *)
(***************************************************************************)
\* The values vals (of the objects ids) after the assignment obj.field = v
\* to the object id: every position that holds the object shows it.
AssignTo(vals, ids, id, field, v) ==
  [k \in 1..Len(vals) |->
     IF ids[k] = id THEN [vals[k] EXCEPT ![field] = v] ELSE vals[k]]

\* rec.granted = !rec.granted, rec being the i-th record of the ledger.  No
\* method takes a record, so the object is in one ledger position; it is
\* also in the array the caller kept when history() returned it.
CallerFlipsGranted(i) ==
  /\ i \in 1..Len(ledger)
  /\ LET id == objectIds.ledger[i]
         v == ~ledger[i].granted
     IN /\ ledger' = AssignTo(ledger, objectIds.ledger, id, "granted", v)
        /\ held' = [held EXCEPT !.elems = AssignTo(@, held.ids, id, "granted", v)]
  /\ callLog' = Append(callLog, [op |-> "assign", store |-> "ledger", index |-> i,
                                 threw |-> FALSE, ret |-> ~ledger[i].granted])
  /\ UNCHANGED <<events, lockedSubjects, pending, second, objectIds>>

\* e.timestamp = t, e being the i-th event of the audit log.  The object is
\* in every position where it was logged, of either AuditLedger, and in the
\* array the caller kept when list() or since() returned it.
CallerSetsTimestamp(i, t) ==
  /\ i \in 1..Len(events)
  /\ t # events[i].timestamp
  /\ LET id == objectIds.events[i]
     IN /\ events' = AssignTo(events, objectIds.events, id, "timestamp", t)
        /\ second' = [second EXCEPT
                        !.events = AssignTo(@, objectIds.events2, id, "timestamp", t)]
        /\ held' = [held EXCEPT !.elems = AssignTo(@, held.ids, id, "timestamp", t)]
  /\ callLog' = Append(callLog, [op |-> "assign", store |-> "events", index |-> i,
                                 threw |-> FALSE, ret |-> t])
  /\ UNCHANGED <<ledger, lockedSubjects, pending, objectIds>>

(***************************************************************************)
(* Two instances of each class.  The fields are instance fields (`private  *)
(* ledger: ConsentRecord[] = []' makes a new array for every `new'), and   *)
(* every method works on the fields of `this'.                             *)
(***************************************************************************)
Instances == {1, 2}

\* Fields that live at module level: every instance works on the same ones.
fieldsOfModuleLevel(i) == 1

\* The fields that `this' stands for in a method called on instance i.
fieldsOf(i) == i

InstanceStores(i) == IF i = 1 THEN Stores ELSE second

InstanceCalls == ConcurrentCalls

\* The call c is made on instance i of its class.
CallOnInstance(i, c) ==
  LET this == fieldsOf(i)
      st == InstanceStores(this)
  IN /\ IF this = 1
        THEN StoresBecome(ApplyCall(st, c)) /\ UNCHANGED second
        ELSE second' = ApplyCall(st, c) /\ UNCHANGED <<ledger, events, lockedSubjects>>
     /\ callLog' = Append(callLog, c @@ CallResult(st, c) @@ [instance |-> i])
     /\ objectIds' = idsAfterCall(objectIds, this, c)
     /\ UNCHANGED <<pending, held>>

\* al.log(e) with e the object that is at events[i] already (log() returned
\* it to the caller), on the AuditLedger instance dst.
LogAgain(i, dst) ==
  /\ i \in 1..Len(events)
  /\ CallOnInstance(dst, [op |-> "log", event |-> events[i], alias |-> i])

(***************************************************************************)
(* The arrays the caller keeps.  history(), list() and since() return what *)
(* Array.prototype.filter returns: a new array (of the stored objects).    *)
(* held.ref says which array the caller holds: "fresh" an array of its     *)
(* own, "ledger" or "events" the array of the store itself; held.elems is  *)
(* the elements of a fresh array.                                          *)
(***************************************************************************)
NoArray == [ref |-> "none", elems |-> <<>>, ids |-> <<>>]

\* A query that hands back the array of the store itself.
resultArrayIsStore(c) == IF c.op = "history" THEN "ledger" ELSE "events"

resultArray(c) == "fresh"

heldElems ==
  IF held.ref = "ledger" THEN ledger
  ELSE IF held.ref = "events" THEN events
  ELSE held.elems

heldIds ==
  IF held.ref = "ledger" THEN objectIds.ledger
  ELSE IF held.ref = "events" THEN objectIds.events
  ELSE held.ids

\* The positions of the store whose objects the query c returns, in order.
returnedPositions(st, c) ==
  LET store == IF c.op = "history" THEN st.ledger ELSE st.events
      keeps(r) ==
        CASE c.op = "history" -> historyMatch(r, c.subjectId, c.purpose)
          [] c.op = "list" -> r.subjectId = c.subjectId
          [] c.op = "since" -> r.subjectId = c.subjectId /\ sinceMatch(r, c.threshold)
  IN SelectSeq([k \in 1..Len(store) |-> k], LAMBDA k : keeps(store[k]))

returnedIds(st, ids, c) ==
  LET pos == returnedPositions(st, c)
      of == IF c.op = "history" THEN ids.ledger ELSE ids.events
  IN [j \in 1..Len(pos) |-> of[pos[j]]]

KeptQueries ==
  {[op |-> "history", subjectId |-> "u1", purpose |-> Undefined],
   [op |-> "list", subjectId |-> "u1"],
   [op |-> "since", subjectId |-> "u1", threshold |-> 0]}

\* const a = cm.history(...) (or list, since): the query runs and the caller
\* keeps the array.
CallerKeepsResult(c) ==
  /\ RunCall(c, NoNotes)
  /\ held' = [ref |-> resultArray(c), elems |-> CallResult(Stores, c).ret,
              ids |-> returnedIds(Stores, objectIds, c)]
  /\ UNCHANGED <<pending, second>>

EditKinds == {"push", "pop", "reverse"}

\* a.push(a[0]), a.pop(), a.reverse() on an array a.
editArray(a, kind) ==
  CASE kind = "push" -> Append(a, a[1])
    [] kind = "pop" -> SubSeq(a, 1, Len(a) - 1)
    [] kind = "reverse" -> [i \in 1..Len(a) |-> a[Len(a) + 1 - i]]

\* The caller adds to, removes from or reorders the array it holds.
CallerEditsHeld(kind) ==
  /\ held.ref # "none"
  /\ Len(heldElems) >= 1
  /\ LET new == editArray(heldElems, kind)
         newIds == editArray(heldIds, kind)
     IN /\ held' = [held EXCEPT !.elems = new, !.ids = newIds]
        /\ ledger' = IF held.ref = "ledger" THEN new ELSE ledger
        /\ events' = IF held.ref = "events" THEN new ELSE events
        /\ objectIds' = [objectIds EXCEPT
                           !.ledger = IF held.ref = "ledger" THEN newIds ELSE @,
                           !.events = IF held.ref = "events" THEN newIds ELSE @]
  /\ callLog' = Append(callLog, [op |-> "edit", kind |-> kind, threw |-> FALSE])
  /\ UNCHANGED <<lockedSubjects, pending, second>>

(***************************************************************************)
(* Specifications.  Init is the state after `new' of the three classes.    *)
(* SpecConsent, SpecAudit and SpecLock are the runs that use one store;    *)
(* Spec is the runs that use all three.                                    *)
(***************************************************************************)
Init ==
  /\ ledger = <<>>
  /\ events = <<>>
  /\ lockedSubjects = {}
  /\ callLog = <<>>
  /\ pending = [c \in Callers |-> Idle]
  /\ second = EmptyStores
  /\ held = NoArray
  /\ objectIds = NoObjects

\* A run of a specification makes at most n calls.
WithinBudget(n) == Len(callLog) < n

NextConsent ==
  \/ \E s \in Subjects, p \in Purposes, t \in ConsentTimes :
       WithinBudget(MaxConsentCalls) /\ Grant(s, p, t)
  \/ \E s \in Subjects, p \in Purposes, t \in ConsentTimes :
       WithinBudget(MaxConsentCalls) /\ Revoke(s, p, t)

NextAudit == \E e \in EventInputs : WithinBudget(MaxAuditCalls) /\ Log(e)

NextLock ==
  \/ \E s \in Subjects : WithinBudget(MaxLockCalls) /\ Lock(s)
  \/ \E s \in Subjects, c \in CourtOrderArgs :
       WithinBudget(MaxLockCalls) /\ Unlock(s, c)

Next ==
  \/ \E s \in Subjects, p \in Purposes, t \in ConsentTimes :
       WithinBudget(MaxCalls) /\ Grant(s, p, t)
  \/ \E s \in Subjects, p \in Purposes, t \in ConsentTimes :
       WithinBudget(MaxCalls) /\ Revoke(s, p, t)
  \/ \E e \in EventInputs : WithinBudget(MaxCalls) /\ Log(e)
  \/ \E s \in Subjects : WithinBudget(MaxCalls) /\ Lock(s)
  \/ \E s \in Subjects, c \in CourtOrderArgs : WithinBudget(MaxCalls) /\ Unlock(s, c)

\* The runs in which the caller also assigns to the objects it holds.
AliasEvents == {AuditEvent("u1", "svc", "READ", "db", t, Undefined) : t \in {0, 1}}

NextAlias ==
  \/ \E t \in ConsentTimes : WithinBudget(MaxAliasCalls) /\ Grant("u1", "ads", t)
  \/ \E t \in ConsentTimes : WithinBudget(MaxAliasCalls) /\ Revoke("u1", "ads", t)
  \/ \E e \in AliasEvents : WithinBudget(MaxAliasCalls) /\ Log(e)
  \/ \E i \in 1..MaxAliasCalls, dst \in Instances :
       WithinBudget(MaxAliasCalls) /\ LogAgain(i, dst)
  \/ \E c \in KeptQueries : WithinBudget(MaxAliasCalls) /\ CallerKeepsResult(c)
  \/ \E i \in 1..MaxAliasCalls : WithinBudget(MaxAliasCalls) /\ CallerFlipsGranted(i)
  \/ \E i \in 1..MaxAliasCalls, t \in AuditTimes :
       WithinBudget(MaxAliasCalls) /\ CallerSetsTimestamp(i, t)

NextConcurrent ==
  \/ \E c \in Callers, call \in ConcurrentCalls :
       CallsBegun < MaxConcurrentCalls /\ Issue(c, call)
  \/ \E c \in Callers : Run(c)

\* The runs in which grant and revoke are called with and without the time
\* argument; 0 is a supplied time, and the clock is ahead of every supplied
\* time.
ClockSubjects == {"u1"}

ClockPurposes == {"ads"}

SuppliedTimes == {0, 1, 2}

ClockReadings == {5, 6}

NextClock ==
  \/ \E s \in ClockSubjects, p \in ClockPurposes, t \in SuppliedTimes, now \in ClockReadings :
       WithinBudget(MaxClockCalls) /\ GrantAt(s, p, t, now)
  \/ \E s \in ClockSubjects, p \in ClockPurposes, t \in SuppliedTimes, now \in ClockReadings :
       WithinBudget(MaxClockCalls) /\ RevokeAt(s, p, t, now)
  \/ \E s \in ClockSubjects, p \in ClockPurposes, now \in ClockReadings :
       WithinBudget(MaxClockCalls) /\ GrantNow(s, p, now)
  \/ \E s \in ClockSubjects, p \in ClockPurposes, now \in ClockReadings :
       WithinBudget(MaxClockCalls) /\ RevokeNow(s, p, now)

\* The runs in which the caller makes the queries as well as the writes.
QuerySubjects == {"", "u1"}

QueryEvents ==
  {AuditEvent("u1", "svc", "READ", x, 0, Undefined) : x \in {"db", ""}}

QueryThresholds == {0, 1}

NextQuery ==
  \/ \E s \in QuerySubjects, p \in Purposes : WithinBudget(MaxQueryCalls) /\ Grant(s, p, 1)
  \/ \E s \in QuerySubjects, p \in Purposes : WithinBudget(MaxQueryCalls) /\ Revoke(s, p, 1)
  \/ \E e \in QueryEvents : WithinBudget(MaxQueryCalls) /\ Log(e)
  \/ \E s \in QuerySubjects : WithinBudget(MaxQueryCalls) /\ Lock(s)
  \/ \E s \in QuerySubjects : WithinBudget(MaxQueryCalls) /\ Unlock(s, Undefined)
  \/ \E s \in QuerySubjects, p \in Purposes : WithinBudget(MaxQueryCalls) /\ Latest(s, p)
  \/ \E s \in QuerySubjects, p \in PurposeArgs : WithinBudget(MaxQueryCalls) /\ History(s, p)
  \/ \E s \in QuerySubjects : WithinBudget(MaxQueryCalls) /\ List(s)
  \/ \E s \in QuerySubjects, t \in QueryThresholds :
       WithinBudget(MaxQueryCalls) /\ Since(s, t)
  \/ \E s \in QuerySubjects : WithinBudget(MaxQueryCalls) /\ IsLocked(s)

\* The runs with two instances of each class.
NextInstances ==
  \E i \in Instances, c \in InstanceCalls :
    WithinBudget(MaxInstanceCalls) /\ CallOnInstance(i, c)

\* The runs in which the caller keeps the arrays it gets and edits them.
NextCopy ==
  \/ WithinBudget(MaxCopyCalls) /\ Grant("u1", "ads", 1)
  \/ WithinBudget(MaxCopyCalls) /\ Revoke("u1", "ads", 2)
  \/ WithinBudget(MaxCopyCalls) /\ Log(AuditEvent("u1", "svc", "READ", "db", 0, Undefined))
  \/ \E c \in KeptQueries : WithinBudget(MaxCopyCalls) /\ CallerKeepsResult(c)
  \/ \E kind \in EditKinds : WithinBudget(MaxCopyCalls) /\ CallerEditsHeld(kind)

SpecConsent == Init /\ [][NextConsent]_vars

SpecAudit == Init /\ [][NextAudit]_vars

SpecLock == Init /\ [][NextLock]_vars

Spec == Init /\ [][Next]_vars

SpecAlias == Init /\ [][NextAlias]_vars

SpecConcurrent == Init /\ [][NextConcurrent]_vars

SpecClock == Init /\ [][NextClock]_vars

SpecQuery == Init /\ [][NextQuery]_vars

SpecInstances == Init /\ [][NextInstances]_vars

SpecCopy == Init /\ [][NextCopy]_vars

(***************************************************************************)
(* Vocabulary of the properties.                                           *)
(***************************************************************************)
SetMax(S) == CHOOSE x \in S : \A y \in S : y <= x

IsPrefix(a, b) == Len(a) <= Len(b) /\ \A i \in 1..Len(a) : a[i] = b[i]

\* The number of members of the index set M that are <= i: the position of
\* seq[i] among the elements of seq selected by M, in the order of seq.
Rank(M, i) == Cardinality({j \in M : j <= i})

\* r is exactly the elements of seq at the indices M, in the order of seq.
IsSelection(r, seq, M) ==
  /\ Len(r) = Cardinality(M)
  /\ \A i \in M : r[Rank(M, i)] = seq[i]

\* The representation of object identity is sound: the identities are given
\* position by position, and two positions with the same identity, wherever
\* they are, have the same value.
Places ==
  <<[vals |-> ledger, ids |-> objectIds.ledger],
    [vals |-> events, ids |-> objectIds.events],
    [vals |-> second.ledger, ids |-> objectIds.ledger2],
    [vals |-> second.events, ids |-> objectIds.events2],
    [vals |-> heldElems, ids |-> heldIds]>>

ObjectsConsistent ==
  /\ \A a \in 1..Len(Places) : Len(Places[a].vals) = Len(Places[a].ids)
  /\ \A a, b \in 1..Len(Places) :
       \A i \in 1..Len(Places[a].ids), j \in 1..Len(Places[b].ids) :
         Places[a].ids[i] = Places[b].ids[j] => Places[a].vals[i] = Places[b].vals[j]

\* The step appends one call to callLog; NewCall is that call.
CallMade == Len(callLog') = Len(callLog) + 1

NewCall == callLog'[Len(callLog')]

\* The grant and revoke calls made so far for exactly (s, p).
ConsentCallsFor(s, p) ==
  {i \in 1..Len(callLog) :
     /\ callLog[i].op \in {"grant", "revoke"}
     /\ callLog[i].subjectId = s
     /\ callLog[i].purpose = p}

LastCall == callLog[Len(callLog)]

\* The lock (unlock) calls made so far for subject s.
LockCallsFor(s) ==
  {i \in 1..Len(callLog) : callLog[i].op = "lock" /\ callLog[i].subjectId = s}

UnlockCallsFor(s) ==
  {i \in 1..Len(callLog) : callLog[i].op = "unlock" /\ callLog[i].subjectId = s}

\* One of the four required fields of an audit event is empty or absent.
MissingField(e) ==
  \E x \in {e.subjectId, e.actor, e.action, e.resource} : x = "" \/ x = Undefined

(***************************************************************************)
(* C1.  After any sequence of grant and revoke calls, latest(s, p) is the  *)
(* record appended by the most recent grant or revoke call for exactly     *)
(* (s, p), whatever the timestamps of the calls; with no such call it is   *)
(* absent.                                                                 *)
(***************************************************************************)
C1_LatestIsLastAppended ==
  \A s \in Subjects, p \in Purposes :
    LET I == ConsentCallsFor(s, p) IN
    IF I = {} THEN latest(s, p) = NoRecord
    ELSE LET c == callLog[SetMax(I)]
         IN latest(s, p) = ConsentRecord(s, p, c.op = "grant", c.time)

\* A later call for the pair carried a smaller timestamp than an earlier
\* one, and latest() returns the later call's record.
C1_Witness ==
  \E s \in Subjects, p \in Purposes :
    \E i, j \in ConsentCallsFor(s, p) :
      /\ i < j
      /\ j = SetMax(ConsentCallsFor(s, p))
      /\ callLog[i].time > callLog[j].time
      /\ latest(s, p).timestamp = callLog[j].time

(***************************************************************************)
(* C2.  history(s, p) is a selection of the ledger in append order: the    *)
(* k-th record of the result is the k-th selected record of the ledger,    *)
(* never reordered by timestamp; with a non-empty purpose the selected     *)
(* records are exactly those of (s, p).                                    *)
(***************************************************************************)
C2_HistoryInAppendOrder ==
  \A s \in Subjects, p \in PurposeArgs :
    LET h == history(s, p) IN
    /\ \E M \in SUBSET (1..Len(ledger)) : IsSelection(h, ledger, M)
    /\ (p # "" /\ p # Undefined) =>
         IsSelection(h, ledger,
                     {i \in 1..Len(ledger) :
                        ledger[i].subjectId = s /\ ledger[i].purpose = p})

\* A was appended before B, A.timestamp > B.timestamp, and the result is <<A, B>>.
C2_Witness ==
  \E s \in Subjects, p \in Purposes :
    LET h == history(s, p) IN
    /\ Len(h) = 2
    /\ h[1].timestamp > h[2].timestamp
    /\ h[1].purpose = p /\ h[2].purpose = p
    /\ Len(ledger) = 3

(***************************************************************************)
(* C3.  For every subject and every purpose value, the length of           *)
(* history(s, p) is the number of grant plus revoke calls made so far for  *)
(* exactly (s, p) (and so never decreases).  The code breaks this for the  *)
(* purpose "": `purpose ? ... : true' takes the empty string for an        *)
(* omitted argument and returns the records of every purpose.              *)
(***************************************************************************)
C3_HistoryLengthIsCallCount ==
  \A s \in Subjects, p \in Purposes :
    Len(history(s, p)) = Cardinality(ConsentCallsFor(s, p))

(***************************************************************************)
(* C4.  The consent timeline is append-only: every grant or revoke call    *)
(* leaves history(s, p), for every subject and every purpose argument      *)
(* (omitted included), a prefix of what the same query returns after the   *)
(* call: earlier records keep their position and their four field values.  *)
(***************************************************************************)
C4_ConsentAppendOnly ==
  [][\A s \in Subjects, p \in PurposeArgs :
       IsPrefix(history(s, p), history(s, p)')]_vars

\* A revoke has just followed a record of the same pair, which is still there.
C4_Witness ==
  /\ Len(callLog) >= 2
  /\ LastCall.op = "revoke"
  /\ callLog[Len(callLog) - 1].op = "grant"
  /\ callLog[Len(callLog) - 1].subjectId = LastCall.subjectId
  /\ callLog[Len(callLog) - 1].purpose = LastCall.purpose
  /\ Len(history(LastCall.subjectId, LastCall.purpose)) >= 2

(***************************************************************************)
(* C5.  The audit trail is append-only: every log call, accepted or        *)
(* rejected, leaves list(s) a prefix of list(s) after the call.            *)
(***************************************************************************)
C5_AuditAppendOnly ==
  [][\A s \in Subjects : IsPrefix(list(s), list(s)')]_vars

\* An accepted event of a subject that already had one, then a rejected call.
C5_Witness ==
  /\ Len(callLog) >= 3
  /\ LastCall.threw
  /\ \E s \in Subjects : Len(list(s)) >= 2

(***************************************************************************)
(* C6.  log(e) signals an error whenever one of subjectId, actor, action,  *)
(* resource is empty or absent, and then appends nothing: the audit store  *)
(* is as it was before the call, and no stored event (so no event of any   *)
(* list or since result) has such a field.                                 *)
(***************************************************************************)
C6_LogRejectsAndAppendsNothing ==
  /\ [](\A i \in 1..Len(events) : ~MissingField(events[i]))
  /\ [][(CallMade /\ NewCall.op = "log" /\ MissingField(NewCall.event)) =>
          (NewCall.threw /\ events' = events)]_vars

\* A call with only the resource missing was rejected after an accepted one.
C6_Witness ==
  /\ Len(callLog) >= 2
  /\ LastCall.op = "log"
  /\ LastCall.threw
  /\ LastCall.event.resource = ""
  /\ LastCall.event.subjectId = "u1"
  /\ Len(list("u1")) >= 1

(***************************************************************************)
(* C7.  since(s, t) is exactly the events of list(s) with timestamp >= t   *)
(* (an event with timestamp t is returned), in the order of list(s).       *)
(***************************************************************************)
C7_SinceIsInclusiveFilter ==
  \A s \in Subjects, t \in Thresholds :
    IsSelection(since(s, t), list(s),
                {i \in 1..Len(list(s)) : list(s)[i].timestamp >= t})

\* One event below the threshold is dropped, one at it and one above it are kept.
C7_Witness ==
  \E s \in Subjects, t \in Thresholds :
    /\ Len(list(s)) = 3
    /\ Len(since(s, t)) = 2
    /\ \E i \in 1..2 : since(s, t)[i].timestamp = t
    /\ \E i \in 1..2 : since(s, t)[i].timestamp > t

(***************************************************************************)
(* C8 as stated.  After accepted log calls with any integer timestamps,    *)
(* since(s, 0) is list(s).  An event with a negative timestamp refutes it. *)
(***************************************************************************)
C8_SinceZeroIsList ==
  \A s \in Subjects : since(s, 0) = list(s)

(***************************************************************************)
(* C8 as amended.  When no event of list(s) has a negative timestamp,      *)
(* since(s, 0) is list(s).                                                 *)
(***************************************************************************)
C8_SinceZeroIsListNonNegative ==
  \A s \in Subjects :
    (\A i \in 1..Len(list(s)) : list(s)[i].timestamp >= 0) => since(s, 0) = list(s)

\* A subject with two events, one of them at timestamp 0, none negative.
C8_Witness ==
  \E s \in Subjects :
    /\ Len(list(s)) = 2
    /\ \A i \in 1..2 : list(s)[i].timestamp >= 0
    /\ \E i \in 1..2 : list(s)[i].timestamp = 0
    /\ Len(since(s, 0)) = 2

(***************************************************************************)
(* C9.  isLocked(s) is true exactly when lock(s) has been called and no    *)
(* unlock(s), with or without a court order id, has been called after the  *)
(* last lock(s); a subject never locked is unlocked.                       *)
(***************************************************************************)
C9_LockedIffLockIsLast ==
  \A s \in Subjects :
    isLocked(s) <=>
      /\ LockCallsFor(s) # {}
      /\ \A j \in UnlockCallsFor(s) : j < SetMax(LockCallsFor(s))

\* s was locked, then unlocked without a court order id, and is unlocked,
\* while another subject stays locked.
C9_Witness ==
  \E s, u \in Subjects :
    /\ s # u
    /\ LockCallsFor(s) # {}
    /\ LastCall.op = "unlock"
    /\ LastCall.subjectId = s
    /\ LastCall.courtOrderId = Undefined
    /\ ~isLocked(s)
    /\ isLocked(u)

(***************************************************************************)
(* C10.  lock and unlock always return true; lock of a locked subject and  *)
(* unlock of an unlocked or never-locked subject leave the lock registry   *)
(* as it was, and a call that repeats the call before it changes nothing.  *)
(***************************************************************************)
C10_LockUnlockIdempotent ==
  [][(CallMade /\ NewCall.op \in {"lock", "unlock"}) =>
       /\ NewCall.ret = TRUE
       /\ ~NewCall.threw
       /\ (NewCall.op = "lock" /\ isLocked(NewCall.subjectId)) =>
            lockedSubjects' = lockedSubjects
       /\ (NewCall.op = "unlock" /\ ~isLocked(NewCall.subjectId)) =>
            lockedSubjects' = lockedSubjects
       /\ (/\ Len(callLog) >= 1
           /\ LastCall.op = NewCall.op
           /\ LastCall.subjectId = NewCall.subjectId) =>
            lockedSubjects' = lockedSubjects]_vars

\* lock(s) twice in a row with s locked, and unlock(u) twice in a row of a
\* subject that was never locked.
C10_Witness ==
  \E s, u \in Subjects :
    /\ Len(callLog) = 4
    /\ callLog[1].op = "unlock" /\ callLog[1].subjectId = u
    /\ callLog[2].op = "unlock" /\ callLog[2].subjectId = u
    /\ callLog[3].op = "lock" /\ callLog[3].subjectId = s
    /\ callLog[4].op = "lock" /\ callLog[4].subjectId = s
    /\ isLocked(s)
    /\ ~isLocked(u)
    /\ LockCallsFor(u) = {}

(***************************************************************************)
(* C11.  revoke is never blocked by lock state: a revoke call for a locked *)
(* subject returns its record without an error, appends that record to the *)
(* ledger, leaves the subject locked, and latest(subject, purpose) is then *)
(* that record, with granted = false.                                      *)
(***************************************************************************)
C11_RevokeNotBlockedByLock ==
  [][(CallMade /\ NewCall.op = "revoke" /\ isLocked(NewCall.subjectId)) =>
       LET s == NewCall.subjectId
           p == NewCall.purpose
           rec == ConsentRecord(s, p, FALSE, NewCall.time)
       IN /\ ~NewCall.threw
          /\ NewCall.ret = rec
          /\ ledger' = Append(ledger, rec)
          /\ isLockedIn(lockedSubjects', s)
          /\ latestIn(ledger', s, p) = rec
          /\ ~latestIn(ledger', s, p).granted]_vars

\* lock(s) was called, then revoke(s, p): s is locked and latest is the revocation.
C11_Witness ==
  /\ Len(callLog) >= 2
  /\ LastCall.op = "revoke"
  /\ callLog[Len(callLog) - 1].op = "lock"
  /\ callLog[Len(callLog) - 1].subjectId = LastCall.subjectId
  /\ isLocked(LastCall.subjectId)
  /\ latest(LastCall.subjectId, LastCall.purpose) = LastCall.ret
  /\ ~latest(LastCall.subjectId, LastCall.purpose).granted

(***************************************************************************)
(* C12.  Queries are subject-partitioned.  The subject of a call is its    *)
(* subjectId argument (for log, the subjectId of the event).  What the     *)
(* queries on subject A return in a run is what they return in the run     *)
(* that makes only the calls on A, in the same order: so two runs with the *)
(* same calls on A, whatever their calls on other subjects, agree on       *)
(* list(A), since(A, t), history(A), history(A, p), latest(A, p) and       *)
(* isLocked(A).  Every record of list(A) and history(A) has subjectId A.   *)
(***************************************************************************)
CallSubject(c) == IF c.op = "log" THEN c.event.subjectId ELSE c.subjectId

CallsOn(A) == SelectSeq(callLog, LAMBDA c : CallSubject(c) = A)

RECURSIVE Replay(_, _)
Replay(st, calls) ==
  IF calls = <<>> THEN st ELSE Replay(ApplyCall(st, Head(calls)), Tail(calls))

\* Everything the queries on subject A return over the stores st.
View(st, A) ==
  [list |-> listIn(st.events, A),
   since |-> [t \in Thresholds |-> sinceIn(st.events, A, t)],
   history |-> [p \in PurposeArgs |-> historyIn(st.ledger, A, p)],
   latest |-> [p \in Purposes |-> latestIn(st.ledger, A, p)],
   isLocked |-> isLockedIn(st.lockedSubjects, A)]

C12_SubjectPartitioned ==
  \A A \in Subjects :
    /\ View(Stores, A) = View(Replay(EmptyStores, CallsOn(A)), A)
    /\ \A i \in 1..Len(list(A)) : list(A)[i].subjectId = A
    /\ \A i \in 1..Len(history(A, Undefined)) : history(A, Undefined)[i].subjectId = A

\* An accepted event of u1, then one of u2: each list holds its own event only.
C12_Witness ==
  /\ Len(callLog) = 2
  /\ callLog[1].op = "log" /\ ~callLog[1].threw /\ callLog[1].event.subjectId = "u1"
  /\ callLog[2].op = "log" /\ ~callLog[2].threw /\ callLog[2].event.subjectId = "u2"
  /\ list("u1") = <<callLog[1].event>>
  /\ list("u2") = <<callLog[2].event>>

(***************************************************************************)
(* C13.  Stored records are immutable and not aliased by callers: when the *)
(* caller assigns to a field of a record object it got from grant, revoke, *)
(* latest or history, or of the event object it passed to log, what        *)
(* history, latest, list and since return is unchanged.  The code hands    *)
(* out the stored objects themselves, so the assignment changes them.      *)
(***************************************************************************)
C13_RecordsNotAliased ==
  [][(CallMade /\ NewCall.op = "assign") =>
       \A s \in Subjects :
         /\ \A p \in PurposeArgs : historyIn(ledger', s, p) = history(s, p)
         /\ \A p \in Purposes : latestIn(ledger', s, p) = latest(s, p)
         /\ listIn(events', s) = list(s)
         /\ \A t \in Thresholds : sinceIn(events', s, t) = since(s, t)]_vars

(***************************************************************************)
(* C14 as stated.  Every grant, revoke, lock and unlock is paired with an  *)
(* audit entry: after the call the audit trail of its subject holds an     *)
(* entry that was not there before.                                        *)
(***************************************************************************)
C14_WritesAreAudited ==
  [][(CallMade /\ NewCall.op \in {"grant", "revoke", "lock", "unlock"}) =>
       Len(listIn(events', NewCall.subjectId)) > Len(list(NewCall.subjectId))]_vars

(***************************************************************************)
(* C14 as amended.  grant, revoke, lock and unlock write no audit entry:   *)
(* after the call the audit log, and so the audit trail of every subject,  *)
(* is what it was before.  An entry for the operation is there only when   *)
(* the caller makes a log call of its own.                                 *)
(***************************************************************************)
C14_WritesLeaveAuditTrail ==
  [][(CallMade /\ NewCall.op \in {"grant", "revoke", "lock", "unlock"}) =>
       /\ events' = events
       /\ \A s \in Subjects : listIn(events', s) = list(s)]_vars

\* grant for u1, then the caller's own log call for u1: the trail of u1
\* holds that one event and nothing for the grant.
C14_Witness ==
  /\ Len(callLog) = 2
  /\ callLog[1].op = "grant" /\ callLog[1].subjectId = "u1"
  /\ callLog[2].op = "log" /\ ~callLog[2].threw
  /\ list("u1") = <<callLog[2].event>>
  /\ Len(history("u1", Undefined)) = 1

(***************************************************************************)
(* C15 as stated.  A locked subject becomes unlocked only by an unlock     *)
(* call for that subject that carries a court order id.                    *)
(***************************************************************************)
C15_UnlockOnlyWithOrder ==
  [][\A s \in Subjects :
       (isLocked(s) /\ ~isLockedIn(lockedSubjects', s)) =>
         /\ CallMade
         /\ NewCall.op = "unlock"
         /\ NewCall.subjectId = s
         /\ NewCall.courtOrderId # Undefined]_vars

(***************************************************************************)
(* C15 as amended.  A locked subject becomes unlocked only by an unlock    *)
(* call for that subject, with or without a court order id; no other call  *)
(* (grant, revoke, log, lock, unlock of another subject) lifts the lock.   *)
(***************************************************************************)
C15_UnlockOnlyByUnlock ==
  [][\A s \in Subjects :
       (isLocked(s) /\ ~isLockedIn(lockedSubjects', s)) =>
         /\ CallMade
         /\ NewCall.op = "unlock"
         /\ NewCall.subjectId = s]_vars

\* lock(s), then unlock(s) with no court order id: s is unlocked.
C15_Witness ==
  \E s \in Subjects :
    /\ Len(callLog) = 2
    /\ callLog[1].op = "lock" /\ callLog[1].subjectId = s
    /\ callLog[2].op = "unlock" /\ callLog[2].subjectId = s
    /\ callLog[2].courtOrderId = Undefined
    /\ ~isLocked(s)

(***************************************************************************)
(* C16.  Appends to the consent timeline are linearizable.  When callers   *)
(* issue grant or revoke for the same (subject, purpose) concurrently,     *)
(* under every interleaving the record of every call that has run is in    *)
(* the timeline (no lost update), the records standing in the order in     *)
(* which the calls ran; and what a history(subject, purpose) call returned *)
(* is a prefix of what every later one returns, so all reads agree on the  *)
(* relative order of the records.                                          *)
(***************************************************************************)
WholeRecord(c) == ConsentRecord(c.subjectId, c.purpose, c.op = "grant", c.time)

\* The records of the grant and revoke calls for exactly (s, p) among the
\* first n calls that ran, in the order in which they ran.
RecordsWritten(n, s, p) ==
  LET writes == SelectSeq(SubSeq(callLog, 1, n),
                          LAMBDA c : /\ c.op \in {"grant", "revoke"}
                                     /\ c.subjectId = s
                                     /\ c.purpose = p)
  IN [i \in 1..Len(writes) |-> WholeRecord(writes[i])]

HistoryCalls == {k \in 1..Len(callLog) : callLog[k].op = "history"}

C16_AppendsLinearizable ==
  /\ \A s \in Subjects, p \in Purposes \ {""} :
       history(s, p) = RecordsWritten(Len(callLog), s, p)
  /\ \A k \in HistoryCalls :
       /\ IsPrefix(callLog[k].ret, history(callLog[k].subjectId, callLog[k].purpose))
       /\ \A j \in HistoryCalls :
            (j < k /\ callLog[j].subjectId = callLog[k].subjectId
                   /\ callLog[j].purpose = callLog[k].purpose)
              => IsPrefix(callLog[j].ret, callLog[k].ret)

\* Two callers had a grant/revoke for the same pair pending at once; both
\* ran, and a later history call returned both records.
C16_Witness ==
  /\ Len(callLog) = 3
  /\ callLog[1].op \in {"grant", "revoke"}
  /\ callLog[2].op \in {"grant", "revoke"}
  /\ callLog[1].caller # callLog[2].caller
  /\ callLog[1].meanwhile = [x \in {"op", "subjectId", "purpose", "time"} |-> callLog[2][x]]
  /\ callLog[1].subjectId = callLog[2].subjectId
  /\ callLog[1].purpose = callLog[2].purpose
  /\ callLog[3].op = "history"
  /\ callLog[3].ret = <<WholeRecord(callLog[1]), WholeRecord(callLog[2])>>

(***************************************************************************)
(* C17.  No query observes a partially applied append.  Under every        *)
(* interleaving of the writes (grant, revoke, log, lock, unlock) with the  *)
(* queries on the same subject, what a query returned is what the writes   *)
(* that ran before it, each taken whole, and none of the writes that ran   *)
(* after it, give: history the whole records of the grants and revokes,    *)
(* latest the last of them, list the whole events of the accepted log      *)
(* calls, isLocked whether the last of the lock and unlock calls is a      *)
(* lock.                                                                   *)
(***************************************************************************)
EventsWritten(n, s) ==
  LET writes == SelectSeq(SubSeq(callLog, 1, n),
                          LAMBDA c : /\ c.op = "log"
                                     /\ ~MissingField(c.event)
                                     /\ c.event.subjectId = s)
  IN [i \in 1..Len(writes) |-> writes[i].event]

LockedAfter(n, s) ==
  LET M == {i \in 1..n : callLog[i].op \in {"lock", "unlock"} /\ callLog[i].subjectId = s}
  IN M # {} /\ callLog[SetMax(M)].op = "lock"

WholeWritesGive(k) ==
  LET c == callLog[k]
  IN CASE c.op = "history" -> RecordsWritten(k - 1, c.subjectId, c.purpose)
       [] c.op = "latest" ->
            LET w == RecordsWritten(k - 1, c.subjectId, c.purpose)
            IN IF w = <<>> THEN NoRecord ELSE w[Len(w)]
       [] c.op = "list" -> EventsWritten(k - 1, c.subjectId)
       [] c.op = "isLocked" -> LockedAfter(k - 1, c.subjectId)

QueryCalls ==
  {k \in 1..Len(callLog) : callLog[k].op \in {"history", "latest", "list", "isLocked"}}

C17_QueriesSeeWholeWrites ==
  \A k \in QueryCalls : callLog[k].ret = WholeWritesGive(k)

\* A query was pending while one write ran, and ran while another write was
\* pending: it returned the first write whole and nothing of the second.
C17_Witness ==
  /\ Len(callLog) = 2
  /\ callLog[1].op \in {"grant", "log"}
  /\ callLog[1].meanwhile.op \in {"history", "list"}
  /\ callLog[2].op = callLog[1].meanwhile.op
  /\ callLog[2].meanwhile.op = IF callLog[1].op = "grant" THEN "revoke" ELSE "log"
  /\ Len(callLog[2].ret) = 1
  /\ pending[callLog[1].caller] # Idle

(***************************************************************************)
(* C18.  An accepted log(event) appends the event unchanged and returns    *)
(* it: the returned event and the last element of list(event.subjectId)    *)
(* after the call have the caller's subjectId, actor, action, resource,    *)
(* timestamp and purpose (absent when the caller gave none); the timestamp *)
(* is stored as given, 0 included.                                         *)
(***************************************************************************)
C18_LogStoresEventUnchanged ==
  [][(CallMade /\ NewCall.op = "log" /\ ~MissingField(NewCall.event)) =>
       LET e == NewCall.event
           after == listIn(events', e.subjectId)
       IN /\ ~NewCall.threw
          /\ NewCall.ret = e
          /\ events' = Append(events, e)
          /\ Len(after) = Len(list(e.subjectId)) + 1
          /\ \A f \in {"subjectId", "actor", "action", "resource", "timestamp", "purpose"} :
               after[Len(after)][f] = e[f] /\ NewCall.ret[f] = e[f]]_vars

\* An event with timestamp 0 and no purpose was accepted after another
\* event of the subject, and is the last element of the subject's list.
C18_Witness ==
  /\ Len(callLog) >= 2
  /\ LastCall.op = "log"
  /\ ~LastCall.threw
  /\ LastCall.event.timestamp = 0
  /\ LastCall.event.purpose = Undefined
  /\ Len(list(LastCall.event.subjectId)) = 2
  /\ list(LastCall.event.subjectId)[2] = LastCall.event

(***************************************************************************)
(* C19.  log accepts an event only if its action is one of READ, WRITE,    *)
(* DELETE, PROCESS: no stored event has another action value.  The code    *)
(* declares the four kinds as the type of the field and tests the value    *)
(* for truthiness only, so any non-empty string is accepted at run time.   *)
(***************************************************************************)
C19_OnlyEnumeratedActions ==
  \A i \in 1..Len(events) : events[i].action \in ActionKinds

(***************************************************************************)
(* C20 as stated.  The error of a rejected log names the missing fields:   *)
(* the error outcome tells which of subjectId, actor, action, resource     *)
(* were empty, so two rejections with different sets of empty fields       *)
(* signal different errors.                                                *)
(***************************************************************************)
MissingFields(e) ==
  {f \in {"subjectId", "actor", "action", "resource"} : e[f] = "" \/ e[f] = Undefined}

RejectedCalls == {i \in 1..Len(callLog) : callLog[i].op = "log" /\ callLog[i].threw}

C20_ErrorNamesMissingFields ==
  \A i, j \in RejectedCalls :
    MissingFields(callLog[i].event) # MissingFields(callLog[j].event) =>
      callLog[i].error # callLog[j].error

(***************************************************************************)
(* C20 as amended.  The error of a rejected log is the one message         *)
(* "Invalid audit event", whichever fields were empty; every log call ends *)
(* in exactly one of the returned event, fully formed, or that error.      *)
(***************************************************************************)
C20_OneErrorOrTheEvent ==
  \A i \in 1..Len(callLog) :
    callLog[i].op = "log" =>
      IF MissingField(callLog[i].event)
      THEN /\ callLog[i].threw
           /\ callLog[i].error = "Invalid audit event"
           /\ "ret" \notin DOMAIN callLog[i]
      ELSE /\ ~callLog[i].threw
           /\ callLog[i].ret = callLog[i].event
           /\ "error" \notin DOMAIN callLog[i]

\* Two rejections, one for a missing subjectId and one for a missing
\* resource, with the same error, and an accepted call.
C20_Witness ==
  \E i, j \in RejectedCalls :
    /\ MissingFields(callLog[i].event) = {"subjectId"}
    /\ MissingFields(callLog[j].event) = {"resource"}
    /\ callLog[i].error = callLog[j].error
    /\ \E k \in 1..Len(callLog) : callLog[k].op = "log" /\ ~callLog[k].threw

(***************************************************************************)
(* C21.  Every operation other than log is total.  grant, revoke, latest,  *)
(* history, list, since, lock, unlock and isLocked never signal an error,  *)
(* for any subject or purpose string, the empty string included: each call *)
(* returns; a lock(s) leaves s locked, and an isLocked(s) that follows it  *)
(* returns true (so lock('') succeeds and isLocked('') is then true).      *)
(***************************************************************************)
C21_AllButLogTotal ==
  [][CallMade =>
       LET c == NewCall
       IN c.op # "log" =>
            /\ ~c.threw
            /\ "ret" \in DOMAIN c
            /\ c.op = "lock" =>
                 c.ret = TRUE /\ isLockedIn(lockedSubjects', c.subjectId)
            /\ (/\ c.op = "isLocked"
                /\ Len(callLog) > 0
                /\ LastCall.op = "lock"
                /\ LastCall.subjectId = c.subjectId) => c.ret = TRUE
  ]_vars

\* lock('') then isLocked(''), which returned true.
C21_Witness ==
  /\ Len(callLog) = 2
  /\ callLog[1].op = "lock" /\ callLog[1].subjectId = ""
  /\ callLog[2].op = "isLocked" /\ callLog[2].subjectId = ""
  /\ ~callLog[2].threw
  /\ callLog[2].ret = TRUE

(***************************************************************************)
(* C22.  Each grant (revoke) call appends exactly one record, {subjectId,  *)
(* purpose, granted = true (false), timestamp} with the caller's subject   *)
(* and purpose, and returns that record; immediately afterwards            *)
(* latest(subject, purpose) is the returned record and the ledger holds    *)
(* exactly one record more, the earlier ones as they were.                 *)
(***************************************************************************)
C22_GrantRevokeAppendOne ==
  [][(CallMade /\ NewCall.op \in {"grant", "revoke"}) =>
       LET c == NewCall
       IN /\ ~c.threw
          /\ c.ret = [subjectId |-> c.subjectId, purpose |-> c.purpose,
                      granted |-> (c.op = "grant"), timestamp |-> c.time]
          /\ Len(ledger') = Len(ledger) + 1
          /\ ledger' = Append(ledger, c.ret)
          /\ latestIn(ledger', c.subjectId, c.purpose) = c.ret
  ]_vars

\* A grant and a revoke have been made for a pair that already had a record
\* (the empty purpose among the pairs).
C22_Witness ==
  /\ Len(callLog) = 3
  /\ callLog[2].op = "grant" /\ callLog[3].op = "revoke"
  /\ callLog[1].subjectId = callLog[2].subjectId
  /\ callLog[2].subjectId = callLog[3].subjectId
  /\ callLog[1].purpose = "" /\ callLog[2].purpose = "" /\ callLog[3].purpose = ""
  /\ Len(ledger) = 3
  /\ latest(callLog[3].subjectId, "") = callLog[3].ret

(***************************************************************************)
(* C23.  The timestamp of a consent record is the caller's value whenever  *)
(* one is supplied, 0 and values smaller than those of earlier records     *)
(* included, and is the clock reading at the time of the call only when    *)
(* the time argument is omitted; a supplied timestamp is never replaced by *)
(* the clock.                                                              *)
(***************************************************************************)
TimeSupplied(c) == "time" \in DOMAIN c

C23_TimestampSuppliedOrClock ==
  [][(CallMade /\ NewCall.op \in {"grant", "revoke"}) =>
       LET c == NewCall
           rec == ledger'[Len(ledger')]
       IN /\ Len(ledger') = Len(ledger) + 1
          /\ rec = c.ret
          /\ TimeSupplied(c) => rec.timestamp = c.time
          /\ ~TimeSupplied(c) => rec.timestamp = c.now
  ]_vars

\* A call without the time argument took the clock reading; after it a call
\* supplied 0, smaller than the earlier record's timestamp, and 0 is stored.
C23_Witness ==
  /\ Len(callLog) = 2
  /\ ~TimeSupplied(callLog[1])
  /\ ledger[1].timestamp = callLog[1].now
  /\ TimeSupplied(callLog[2]) /\ callLog[2].time = 0 /\ callLog[2].now # 0
  /\ ledger[2].timestamp = 0
  /\ ledger[2].timestamp < ledger[1].timestamp

(***************************************************************************)
(* C24.  revoke has no prior-state requirement.  It succeeds and appends a *)
(* granted = false record whether the pair has no record, a newest record  *)
(* that is a grant, or a newest record that is already a revocation: a     *)
(* repeated revoke appends a second record.                                *)
(***************************************************************************)
C24_RevokeAlwaysAppends ==
  [][(CallMade /\ NewCall.op = "revoke") =>
       LET c == NewCall
       IN /\ ~c.threw
          /\ c.ret = ConsentRecord(c.subjectId, c.purpose, FALSE, c.time)
          /\ ledger' = Append(ledger, c.ret)
  ]_vars

\* A revoke for a pair with no record, then a second revoke for the pair:
\* both records are in the ledger.
C24_Witness ==
  /\ Len(callLog) = 2
  /\ callLog[1].op = "revoke" /\ callLog[2].op = "revoke"
  /\ callLog[1].subjectId = callLog[2].subjectId
  /\ callLog[1].purpose = callLog[2].purpose
  /\ Len(ledger) = 2
  /\ ~ledger[1].granted /\ ~ledger[2].granted
  /\ ledger[2].subjectId = ledger[1].subjectId /\ ledger[2].purpose = ledger[1].purpose

(***************************************************************************)
(* C25.  The audit trail is a verifiable sequence: any alteration of a     *)
(* previously accepted audit event is detected by the trail's integrity    *)
(* check.  AuditLedger has the methods log, list and since and the one     *)
(* field events; a check of the trail has the stored events to go by and   *)
(* nothing else.  It can detect an alteration only if the altered trail is *)
(* one that accepted log calls alone cannot have produced: that is the     *)
(* statement here.                                                         *)
(***************************************************************************)
AcceptedInputs == {e \in EventInputs : ~MissingField(e)}

\* The trail is one that log calls, and nothing else, can have produced.
HonestTrail(evs) == \A i \in 1..Len(evs) : evs[i] \in AcceptedInputs

C25_AlterationDetectable ==
  [][(CallMade /\ NewCall.op = "assign" /\ NewCall.store = "events") =>
       ~HonestTrail(events')]_vars

(***************************************************************************)
(* C26.  unlock(subject, overrideId) records the unlock transition tagged  *)
(* with the override identifier the caller supplied: the identifier is     *)
(* part of the state kept after the call, so that the state after an       *)
(* unlock with an identifier is not the state after the same unlock        *)
(* without one.                                                            *)
(***************************************************************************)
C26_UnlockKeepsOrderId ==
  [][(CallMade /\ NewCall.op = "unlock" /\ NewCall.courtOrderId # Undefined) =>
       Stores' # unlockEffect(Stores, NewCall.subjectId, Undefined)]_vars

(***************************************************************************)
(* C27.  latest and history agree in every reachable state: for every      *)
(* subject and every purpose string, the empty string included,            *)
(* latest(subject, purpose) is absent exactly when history(subject,        *)
(* purpose) is empty, and otherwise is the last element of                 *)
(* history(subject, purpose).                                              *)
(***************************************************************************)
C27_LatestAgreesWithHistory ==
  \A s \in Subjects, p \in Purposes :
    LET h == history(s, p)
    IN /\ (latest(s, p) = NoRecord) <=> (h = <<>>)
       /\ h # <<>> => latest(s, p) = h[Len(h)]

(***************************************************************************)
(* C28.  Whenever a purpose argument is passed to history, every returned  *)
(* record has exactly that purpose and every stored record of the subject  *)
(* with that purpose is returned, for every purpose string, the empty      *)
(* string included.                                                        *)
(***************************************************************************)
C28_HistoryFiltersByPurpose ==
  \A s \in Subjects, p \in Purposes :
    /\ \A i \in 1..Len(history(s, p)) : history(s, p)[i].purpose = p
    /\ \A i \in 1..Len(ledger) :
         (ledger[i].subjectId = s /\ ledger[i].purpose = p)
           => \E j \in 1..Len(history(s, p)) : history(s, p)[j] = ledger[i]

(***************************************************************************)
(* C29.  history(subject) called without a purpose returns every record of *)
(* the subject, across all purposes, in append order; for each purpose p   *)
(* that a record of the subject has, history(subject, p) is the            *)
(* subsequence of history(subject) with that purpose, and the lengths of   *)
(* the per-purpose histories sum to the length of history(subject).        *)
(***************************************************************************)
PurposesOf(s) == {ledger[i].purpose : i \in {j \in 1..Len(ledger) : ledger[j].subjectId = s}}

RECURSIVE SumOfLengths(_, _)
SumOfLengths(s, P) ==
  IF P = {} THEN 0
  ELSE LET p == CHOOSE q \in P : TRUE
       IN Len(history(s, p)) + SumOfLengths(s, P \ {p})

C29_HistoryPartitionsByPurpose ==
  \A s \in Subjects :
    /\ history(s, Undefined) = SelectSeq(ledger, LAMBDA r : r.subjectId = s)
    /\ \A p \in PurposesOf(s) :
         history(s, p) = SelectSeq(history(s, Undefined), LAMBDA r : r.purpose = p)
    /\ SumOfLengths(s, PurposesOf(s)) = Len(history(s, Undefined))

(***************************************************************************)
(* C30.  Read operations are pure.  A latest, history, list, since or      *)
(* isLocked call leaves the consent ledger, the audit events and the lock  *)
(* set unchanged, and it returns what every earlier call of the same query *)
(* with the same arguments returned, when no write was made in between.    *)
(***************************************************************************)
QueryOps == {"latest", "history", "list", "since", "isLocked"}

SameQuery(c, d) ==
  /\ c.op = d.op
  /\ \A f \in DOMAIN c \ {"op", "ret"} : c[f] = d[f]

C30_ReadsArePure ==
  [][(CallMade /\ NewCall.op \in QueryOps) =>
       /\ UNCHANGED <<ledger, events, lockedSubjects>>
       /\ \A i \in 1..Len(callLog) :
            (/\ \A k \in i..Len(callLog) : callLog[k].op \in QueryOps
             /\ SameQuery(callLog[i], NewCall))
              => NewCall.ret = callLog[i].ret
  ]_vars

\* After a grant, the same latest or history query was made twice on end
\* and returned the record both times.
C30_Witness ==
  /\ Len(callLog) = 3
  /\ callLog[1].op = "grant"
  /\ callLog[2].op \in {"latest", "history"}
  /\ callLog[3].op = callLog[2].op
  /\ SameQuery(callLog[2], callLog[3])
  /\ callLog[2].ret \notin {NoRecord, <<>>}
  /\ callLog[3].ret = callLog[2].ret
  /\ Len(ledger) = 1

(***************************************************************************)
(* C31.  Each write touches only its own store.  grant and revoke leave    *)
(* the audit events and the lock set unchanged; log leaves the consent     *)
(* ledger and the lock set unchanged; lock and unlock leave the consent    *)
(* ledger and the audit events unchanged, and the lock registry keeps the  *)
(* current state only: after the call the lock set is the set before with  *)
(* the subject added (lock) or taken out (unlock), and nothing records the *)
(* transition.                                                             *)
(***************************************************************************)
C31_WritesTouchOwnStore ==
  [][CallMade =>
       LET c == NewCall
       IN /\ c.op \in {"grant", "revoke"} =>
               /\ UNCHANGED <<events, lockedSubjects>>
               /\ Len(ledger') = Len(ledger) + 1
          /\ c.op = "log" =>
               /\ UNCHANGED <<ledger, lockedSubjects>>
               /\ Len(events') = Len(events) + (IF c.threw THEN 0 ELSE 1)
          /\ c.op = "lock" =>
               /\ UNCHANGED <<ledger, events>>
               /\ lockedSubjects' = lockedSubjects \cup {c.subjectId}
          /\ c.op = "unlock" =>
               /\ UNCHANGED <<ledger, events>>
               /\ lockedSubjects' = lockedSubjects \ {c.subjectId}
  ]_vars

\* A lock and a grant have been made: one subject is locked, one record is
\* in the ledger, and the audit events are empty.
C31_Witness ==
  /\ Len(callLog) = 2
  /\ {callLog[1].op, callLog[2].op} = {"lock", "grant"}
  /\ Len(ledger) = 1
  /\ events = <<>>
  /\ Cardinality(lockedSubjects) = 1

(***************************************************************************)
(* C32.  The core does not gate on lock state.  Every call other than      *)
(* lock, unlock and isLocked ends as it ends in the run that makes the     *)
(* same calls without the lock and unlock calls, and the consent ledger    *)
(* and the audit events are those of that run: so two runs that differ     *)
(* only in their lock and unlock calls agree on the outcome of every       *)
(* grant, revoke and log and on what history, latest, list and since       *)
(* return.  In particular grant and log succeed, and history is readable,  *)
(* while the subject is locked.                                            *)
(***************************************************************************)
LockOps == {"lock", "unlock", "isLocked"}

\* The stores of the run that makes the first n calls of callLog without
\* the lock and unlock calls.
WithoutLockCalls(n) ==
  Replay(EmptyStores,
         SelectSeq(SubSeq(callLog, 1, n), LAMBDA c : c.op \notin LockOps))

C32_LockDoesNotGate ==
  /\ WithoutLockCalls(Len(callLog)).ledger = ledger
  /\ WithoutLockCalls(Len(callLog)).events = events
  /\ \A k \in 1..Len(callLog) :
       callLog[k].op \notin LockOps =>
         LET r == CallResult(WithoutLockCalls(k - 1), callLog[k])
         IN /\ callLog[k].threw = r.threw
            /\ ~r.threw => callLog[k].ret = r.ret
            /\ callLog[k].op \in {"grant", "revoke"} => ~callLog[k].threw

\* lock('u1'), then grant('u1', ...) succeeded, then history('u1', ...)
\* returned the record, u1 being locked all the while.
C32_Witness ==
  /\ Len(callLog) = 3
  /\ callLog[1].op = "lock" /\ callLog[1].subjectId = "u1"
  /\ callLog[2].op = "grant" /\ callLog[2].subjectId = "u1" /\ ~callLog[2].threw
  /\ callLog[3].op = "history" /\ callLog[3].subjectId = "u1"
  /\ callLog[3].ret = <<callLog[2].ret>>
  /\ isLocked("u1")

(***************************************************************************)
(* C33.  The lock registry has no terminal state.  From every reachable    *)
(* state and for every subject, a lock call makes isLocked true and an     *)
(* unlock call (with or without a court order id) makes it false, whatever *)
(* calls were made before: lock -> unlock -> lock cycles can repeat and    *)
(* both states stay reachable.                                             *)
(***************************************************************************)
C33_NoTerminalLockState ==
  \A s \in Subjects :
    /\ isLockedIn(lockEffect(Stores, s).lockedSubjects, s)
    /\ \A c \in CourtOrderArgs :
         ~isLockedIn(unlockEffect(Stores, s, c).lockedSubjects, s)
    /\ \A c \in CourtOrderArgs :
         isLockedIn(lockEffect(unlockEffect(lockEffect(Stores, s), s, c), s).lockedSubjects, s)

\* lock -> unlock -> lock -> unlock has run on one subject, each call
\* changing isLocked.
C33_Witness ==
  \E s \in Subjects :
    /\ Len(callLog) = 4
    /\ \A i \in 1..4 : callLog[i].subjectId = s
    /\ callLog[1].op = "lock" /\ callLog[2].op = "unlock"
    /\ callLog[3].op = "lock" /\ callLog[4].op = "unlock"
    /\ ~isLocked(s)

(***************************************************************************)
(* C34.  Store instances are independent.  What the queries on an instance *)
(* of ConsentManager, AuditLedger or LockService return is what they       *)
(* return in the run that makes only the calls made on that instance: the  *)
(* calls on another instance of the same class never change it (there is   *)
(* no module-level shared log or lock set).                                *)
(***************************************************************************)
CallsOnInstance(i) == SelectSeq(callLog, LAMBDA c : c.instance = i)

C34_InstancesIndependent ==
  \A i \in Instances, A \in Subjects :
    View(InstanceStores(i), A) = View(Replay(EmptyStores, CallsOnInstance(i)), A)

\* A grant on the first ConsentManager and a lock on the second LockService:
\* the second ledger is empty and the first lock set is empty.
C34_Witness ==
  /\ Len(callLog) = 2
  /\ \E a, b \in 1..2 :
       /\ callLog[a].op = "grant" /\ callLog[a].instance = 1
       /\ callLog[b].op = "lock" /\ callLog[b].instance = 2
  /\ Len(ledger) = 1 /\ second.ledger = <<>>
  /\ lockedSubjects = {} /\ second.lockedSubjects = {"u1"}

(***************************************************************************)
(* C35.  The sequence handed back by history, list or since is a fresh     *)
(* copy.  Adding, removing or reordering elements of a returned sequence   *)
(* does not change the stored log: the ledger is the records of the grant  *)
(* and revoke calls and the events are the events of the accepted log      *)
(* calls, in call order, whatever the caller did to the arrays it holds,   *)
(* and every later call of a query returns every appended record in append *)
(* order.                                                                  *)
(***************************************************************************)
\* The records of the grant and revoke calls for subject s among the first
\* n calls, in call order.
SubjectRecordsWritten(n, s) ==
  LET writes == SelectSeq(SubSeq(callLog, 1, n),
                          LAMBDA c : c.op \in {"grant", "revoke"} /\ c.subjectId = s)
  IN [i \in 1..Len(writes) |-> WholeRecord(writes[i])]

AppendedBefore(k) ==
  LET c == callLog[k]
  IN CASE c.op = "history" -> SubjectRecordsWritten(k - 1, c.subjectId)
       [] c.op = "list" -> EventsWritten(k - 1, c.subjectId)
       [] c.op = "since" ->
            SelectSeq(EventsWritten(k - 1, c.subjectId),
                      LAMBDA e : e.timestamp >= c.threshold)

C35_ReturnedArraysAreCopies ==
  /\ ledger = SubjectRecordsWritten(Len(callLog), "u1")
  /\ events = EventsWritten(Len(callLog), "u1")
  /\ \A k \in 1..Len(callLog) :
       callLog[k].op \in {"history", "list", "since"} =>
         callLog[k].ret = AppendedBefore(k)

\* The caller kept the array of a query, removed (or added, or moved) an
\* element of it, and the same query then returned the appended record
\* again.
C35_Witness ==
  /\ Len(callLog) = 4
  /\ callLog[1].op \in {"grant", "log"}
  /\ callLog[2].op \in {"history", "list", "since"}
  /\ Len(callLog[2].ret) = 1
  /\ callLog[3].op = "edit" /\ callLog[3].kind = "pop"
  /\ callLog[4].op = callLog[2].op
  /\ Len(callLog[4].ret) = 1
  /\ callLog[4].ret = callLog[2].ret

=============================================================================
